---- MODULE Spec2Model ----
(***************************************************************************)
(* A model of the long-audio transcription service:                        *)
(*   split_audio      cuts the decoded audio into fixed-length chunks,     *)
(*   transcribe_chunk posts one chunk, primed with the previous text,      *)
(*   transcript       drives the chunk loop, shifts the timestamps of the  *)
(*                    returned segments and joins the texts.               *)
(* Times of the audio are in milliseconds, segment timestamps in seconds,  *)
(* texts are sequences of one-character strings.                           *)
(***************************************************************************)
EXTENDS Integers, Sequences, FiniteSets, TLC

VARIABLES
    file,             \* what the file system holds at audio_file_path
    audio_len,        \* len(audio): the decoded duration, in milliseconds
    chunk_length_ms,  \* the chunk_length_ms argument of split_audio
    pc,               \* the position of the run
    split_calls,      \* how many times split_audio has been called
    chunks,           \* the list split_audio returned
    i,                \* the loop index of transcript (0-based)
    combined_result,  \* the accumulator of transcript
    previous_text,    \* the context handed to the next transcribe_chunk
    request,          \* the last request posted to the backend
    inflight,         \* the chunk indexes whose request awaits its response
    posted,           \* the chunk indexes requested so far, in order
    responses,        \* the payloads accumulated so far, in chunk order
    status_code,      \* response.status_code of the last response
    result,           \* what transcript returned
    raised,           \* what transcript raised
    temp_files,       \* the chunk indexes whose temporary .wav file exists
    rejected,         \* the 200 payload the loop body failed on
    ui                \* the outcome of transcribe_audio_dinum

vars == << file, audio_len, chunk_length_ms, pc, split_calls, chunks, i,
           combined_result, previous_text, request, inflight, posted,
           responses, status_code, result, raised, temp_files, rejected,
           ui >>

-----------------------------------------------------------------------------
(* Program constants *)

CHUNK_DURATION_MINUTES == 10

CONTEXT_CHARS == 500

HTTP_OK == 200

DEFAULT_CHUNK_LENGTH_MS == CHUNK_DURATION_MINUTES * 60 * 1000

CHUNK_DURATION_SECONDS == CHUNK_DURATION_MINUTES * 60

AUDIO_FILE_PATH == "audio.wav"

\* The fixed priming text of transcribe_chunk.
PROMPT_PREAMBLE == <<
    "B", "o", "n", "j", "o", "u", "r", ",", " ", "V", "o", "i", "c", "i",
    " ", "u", "n", " ", "f", "i", "c", "h", "i", "e", "r", " ", "a", "u",
    "d", "i", "o", " ", "d", "'", "u", "n", "e", " ", "c", "o", "n", "f",
    "e", "r", "e", "n", "c", "e", " ", "s", "u", "r", " ", "l", "'", "I",
    "A", " ", "p", "a", "r", " ", "q", "u", "e", "l", "q", "u", "'", "u",
    "n", " ", "q", "u", "i", " ", "t", "r", "a", "v", "a", "i", "l", "l",
    "e", " ", "a", "u", " ", "r", "e", "c", "t", "o", "r", "a", "t", " ",
    "d", "e", " ", "l", "'", "a", "c", "a", "d", "é", "m", "i", "e", " ",
    "d", "e", " ", "L", "y", "o", "n", ".", " " >>

\* The label put between the preamble and the previous text.
CONTEXT_LABEL == <<
    "C", "o", "n", "t", "e", "x", "t", "e", " ", "p", "r", "é", "c", "é",
    "d", "e", "n", "t", ":", " " >>

-----------------------------------------------------------------------------
(* Bounds of the model *)

MaxChunks == 2

MaxSegs == 2

MaxAudioLen == 12

MaxChunkLen == 6

-----------------------------------------------------------------------------
(* Strings *)

Min(a, b) == IF a < b THEN a ELSE b

\* str.strip() removes the white space at both ends.
IsSpace(c) == c \in {" ", "\t", "\n"}

RECURSIVE LStrip(_)
LStrip(s) ==
    IF s # << >> /\ IsSpace(Head(s)) THEN LStrip(Tail(s)) ELSE s

RECURSIVE RStrip(_)
RStrip(s) ==
    IF s # << >> /\ IsSpace(s[Len(s)])
    THEN RStrip(SubSeq(s, 1, Len(s) - 1))
    ELSE s

Strip(s) == RStrip(LStrip(s))

\* s[-n:], for n > 0: the last n characters, the whole of a shorter s.
LastChars(s, n) ==
    IF Len(s) <= n THEN s ELSE SubSeq(s, Len(s) - n + 1, Len(s))

-----------------------------------------------------------------------------
(* Exceptions: a class name and the fields its message is formatted from *)

NoValue == [none |-> TRUE]

\* The base classes of each exception class, itself included.
Bases(type) ==
    CASE type = "FileNotFoundError" ->
             {"FileNotFoundError", "IOError", "Exception"}
      [] type = "PermissionError" ->
             {"PermissionError", "IOError", "Exception"}
      [] type = "RequestException" ->
             {"RequestException", "IOError", "Exception"}
      [] type = "ConnectionError" ->
             {"ConnectionError", "RequestException", "IOError", "Exception"}
      [] type = "ValueError" -> {"ValueError", "Exception"}
      [] type = "CouldntDecodeError" -> {"CouldntDecodeError", "Exception"}
      [] OTHER -> {type, "Exception"}

\* isinstance(exc, cls); RequestException derives from IOError.
IsInstance(exc, cls) == cls \in Bases(exc.type)

Exc(type, msg) == [type |-> type, msg |-> msg]

Field(k, v) == [k |-> k, v |-> v]

\* d[key] of a dict d without that key
KeyError(key) == Exc("KeyError", << Field("key", key) >>)

\* Whether the message of exc holds a field k of value v.
Carries(exc, k, v) ==
    \E j \in 1..Len(exc.msg) : exc.msg[j].k = k /\ exc.msg[j].v = v

-----------------------------------------------------------------------------
(* get_mime_type *)

FileKinds == {"missing", "unknown_type", "unreadable", "undecodable", "ok"}

Raise(exc) == [raises |-> TRUE, exc |-> exc]

Return(value) == [raises |-> FALSE, value |-> value]

\* The mutant: the type is guessed from the name of a file not looked for.
get_mime_type_by_name(f) ==
    IF f = "unknown_type"
    THEN Raise(Exc("ValueError",
                   << Field("text", "Unsupported file type: "),
                      Field("path", AUDIO_FILE_PATH) >>))
    ELSE Return("audio/x-wav")

get_mime_type(f) ==
    IF f = "missing"
    THEN Raise(Exc("FileNotFoundError",
                   << Field("text", "File not found: "),
                      Field("path", AUDIO_FILE_PATH) >>))
    ELSE IF f = "unknown_type"
    THEN Raise(Exc("ValueError",
                   << Field("text", "Unsupported file type: "),
                      Field("path", AUDIO_FILE_PATH) >>))
    ELSE Return("audio/x-wav")

-----------------------------------------------------------------------------
(* split_audio *)

\* list(range(start, stop, step)), for step > 0
RECURSIVE Range(_, _, _)
Range(start, stop, step) ==
    IF start < stop
    THEN << start >> \o Range(start + step, stop, step)
    ELSE << >>

\* audio[a:b] of an audio of n milliseconds: both ends are clipped to n.
AudioSlice(n, a, b) == [start |-> Min(a, n), stop |-> Min(b, n)]

ChunkLen(c) == c.stop - c.start

\* The mutant: the range runs one millisecond past the end of the audio.
split_audio_inclusive(n, chunk_len) ==
    LET starts == Range(0, n + 1, chunk_len)
    IN  [k \in 1..Len(starts) |->
            AudioSlice(n, starts[k], starts[k] + chunk_len)]

split_audio(n, chunk_len) ==
    LET starts == Range(0, n, chunk_len)
    IN  [k \in 1..Len(starts) |->
            AudioSlice(n, starts[k], starts[k] + chunk_len)]

\* AudioSegment.from_file(audio_path)
from_file(f, n) ==
    IF f = "missing"
    THEN Raise(Exc("FileNotFoundError",
                   << Field("text", "No such file or directory: "),
                      Field("path", AUDIO_FILE_PATH) >>))
    ELSE IF f = "unreadable"
    THEN Raise(Exc("PermissionError",
                   << Field("text", "Permission denied: "),
                      Field("path", AUDIO_FILE_PATH) >>))
    ELSE IF f = "undecodable"
    THEN Raise(Exc("CouldntDecodeError",
                   << Field("text", "Decoding failed.") >>))
    ELSE Return(n)

-----------------------------------------------------------------------------
(* transcribe_chunk *)

\* The mutant: the whole previous text is sent.
BuildPromptWhole(prev) ==
    IF prev # << >>
    THEN PROMPT_PREAMBLE \o CONTEXT_LABEL \o prev
    ELSE PROMPT_PREAMBLE

BuildPrompt(prev) ==
    IF prev # << >>
    THEN PROMPT_PREAMBLE \o CONTEXT_LABEL \o LastChars(prev, CONTEXT_CHARS)
    ELSE PROMPT_PREAMBLE

\* tempfile.NamedTemporaryFile(suffix=".wav", delete=True), entered.
CreateTemp(files, index) == files \cup {index}

\* The mutant: the file is made with delete=False and outlives the block.
ReleaseTempKept(files, index) == files

\* The with block of the temporary file is left, by return or by raise.
ReleaseTemp(files, index) == files \ {index}

RESPONSE_TEXT == "Internal Server Error"

\* The mutant: the status of the response is not looked at.
CheckResponseAnyStatus(status, body) == Return(body)

CheckResponse(status, body) ==
    IF status # HTTP_OK
    THEN Raise(Exc("RequestException",
                   << Field("text", "Failed to transcribe audio chunk: "),
                      Field("status", status),
                      Field("text", " - "),
                      Field("response_text", RESPONSE_TEXT) >>))
    ELSE Return(body)

-----------------------------------------------------------------------------
(* transcript *)

EmptyResult == [text |-> << >>, chunks |-> << >>, language |-> "fr"]

\* The mutant: the offset counts minutes where the timestamps count seconds.
time_offset_minutes(k) == k * CHUNK_DURATION_MINUTES

time_offset(k) == k * (CHUNK_DURATION_MINUTES * 60)

\* The mutant: the segment is built anew from its timestamp and text.
AdjustTimestampRebuilt(chunk_data, offset) ==
    [timestamp |-> << chunk_data.timestamp[1] + offset,
                      chunk_data.timestamp[2] + offset >>,
     text |-> chunk_data.text]

AdjustTimestamp(chunk_data, offset) ==
    [chunk_data EXCEPT !.timestamp =
        << chunk_data.timestamp[1] + offset,
           chunk_data.timestamp[2] + offset >>]

\* The mutant: the segments of a chunk are put in front of the earlier ones.
AppendChunksFront(acc, segs, offset) ==
    [k \in 1..Len(segs) |-> AdjustTimestamp(segs[k], offset)] \o acc

\* The inner loop of transcript over chunk_result["chunks"].
AppendChunks(acc, segs, offset) ==
    acc \o [k \in 1..Len(segs) |-> AdjustTimestamp(segs[k], offset)]

\* The mutant: the separator is put between texts only.
CombineTextJoin(text, t) ==
    IF text = << >> THEN Strip(t) ELSE text \o << " " >> \o Strip(t)

CombineText(text, t) == text \o << " " >> \o Strip(t)

\* The mutant: the context is cut to its last 500 characters when stored.
NextContextTrimmed(text) == LastChars(text, CONTEXT_CHARS)

\* previous_text = combined_result["text"]
NextContext(text) == text

\* The except clauses of transcript: what reaches the caller when exc is
\* raised inside the try block.
transcript_except(exc) ==
    IF IsInstance(exc, "FileNotFoundError")
    THEN Exc("FileNotFoundError",
             << Field("text", "Audio file not found: "),
                Field("path", AUDIO_FILE_PATH) >>)
    ELSE IF IsInstance(exc, "PermissionError")
    THEN Exc("PermissionError",
             << Field("text", "Permission denied when accessing file: "),
                Field("path", AUDIO_FILE_PATH) >>)
    ELSE IF IsInstance(exc, "IOError")
    THEN Exc("IOError",
             << Field("text", "Error reading audio file "),
                Field("path", AUDIO_FILE_PATH),
                Field("text", ": ") >> \o exc.msg)
    ELSE exc

-----------------------------------------------------------------------------
(* The inputs of a run *)

\* Audio durations giving 0..MaxChunks chunks, the last one short or full.
AudioLens ==
    { q * DEFAULT_CHUNK_LENGTH_MS + r :
        q \in 0..(MaxChunks - 1), r \in {0, 1, DEFAULT_CHUNK_LENGTH_MS} }

Segment(start, end, text) == [timestamp |-> << start, end >>, text |-> text]

\* A segment with a field besides the timestamp and the text.
SegmentWithMeta(start, end, text, meta) ==
    [timestamp |-> << start, end >>, text |-> text, confidence |-> meta]

\* Segments of the backend: inside the chunk, at its end, and past its end.
SegChoices ==
    { Segment(0, CHUNK_DURATION_SECONDS \div 2, "un"),
      SegmentWithMeta(CHUNK_DURATION_SECONDS, CHUNK_DURATION_SECONDS, "deux",
                      "high"),
      Segment(CHUNK_DURATION_SECONDS + 1, CHUNK_DURATION_SECONDS + 2, "trois") }

SegLists == UNION { [1..n -> SegChoices] : n \in 0..MaxSegs }

\* A text longer than the context window.
LongText == [k \in 1..(CONTEXT_CHARS + 1) |-> IF k % 2 = 1 THEN "a" ELSE "b"]

TextChoices ==
    { << >>,
      << " ", " " >>,
      << " ", "a" >>,
      << "\n", "a", " ", "b", " " >>,
      LongText }

\* The payloads the backend answers with.
Bodies ==
    { [text |-> t, chunks |-> << >>] : t \in TextChoices }
    \cup { [text |-> << " ", "a" >>, chunks |-> l] : l \in SegLists }

\* Payloads of a 200 response that lack the text or the segment list.
MalformedBodies ==
    { [chunks |-> << Segment(0, CHUNK_DURATION_SECONDS \div 2, "un") >>],
      [text |-> << "a" >>] }

Statuses == {HTTP_OK, 500}

NoRequest == [index |-> -1, prompt |-> << >>]

-----------------------------------------------------------------------------
(* A run of transcript(audio_file_path) *)

Init ==
    /\ file \in FileKinds
    /\ audio_len \in (IF file = "ok" THEN AudioLens ELSE {0})
    /\ chunk_length_ms = DEFAULT_CHUNK_LENGTH_MS
    /\ pc = "start"
    /\ split_calls = 0
    /\ chunks = << >>
    /\ i = 0
    /\ combined_result = EmptyResult
    /\ previous_text = << >>
    /\ request = NoRequest
    /\ inflight = {}
    /\ posted = << >>
    /\ responses = << >>
    /\ status_code = 0    \* no response yet
    /\ result = NoValue
    /\ raised = NoValue
    /\ temp_files = {}
    /\ rejected = NoValue
    /\ ui = NoValue

\* transcript raises what its except clauses make of exc.
Abort(exc) ==
    /\ pc' = "raised"
    /\ raised' = transcript_except(exc)

\* get_mime_type(audio_file_path)
Validate ==
    /\ pc = "start"
    /\ LET r == get_mime_type(file)
       IN  IF r.raises
           THEN Abort(r.exc)
           ELSE pc' = "validated" /\ UNCHANGED raised
    /\ UNCHANGED << temp_files, rejected, ui >>
    /\ UNCHANGED << file, audio_len, chunk_length_ms, split_calls, chunks, i,
                    combined_result, previous_text, request, inflight,
                    posted, responses, status_code, result >>

\* chunks = split_audio(audio_file_path), then the accumulator is set up.
Split ==
    /\ pc = "validated"
    /\ split_calls' = split_calls + 1
    /\ LET audio == from_file(file, audio_len)
       IN  IF audio.raises
           THEN /\ Abort(audio.exc)
                /\ UNCHANGED << chunks, i, combined_result, previous_text >>
           ELSE /\ chunks' = split_audio(audio.value, chunk_length_ms)
                /\ combined_result' = EmptyResult
                /\ previous_text' = << >>
                /\ i' = 0
                /\ pc' = "loop"
                /\ UNCHANGED raised
    /\ UNCHANGED << temp_files, rejected, ui >>
    /\ UNCHANGED << file, audio_len, chunk_length_ms, request, inflight,
                    posted, responses, status_code, result >>

\* The mutant: the request is posted and the loop goes on to the next chunk.
PostNoWait ==
    /\ pc = "loop"
    /\ i < Len(chunks)
    /\ request' = [index |-> i, prompt |-> BuildPrompt(previous_text)]
    /\ inflight' = inflight \cup {i}
    /\ posted' = Append(posted, i)
    /\ i' = i + 1
    /\ temp_files' = CreateTemp(temp_files, i)
    /\ UNCHANGED << rejected, ui >>
    /\ UNCHANGED << file, audio_len, chunk_length_ms, pc, split_calls, chunks,
                    combined_result, previous_text, responses, status_code,
                    result, raised >>

\* transcribe_chunk(chunk, previous_text) up to requests.post.
Post ==
    /\ pc = "loop"
    /\ i < Len(chunks)
    /\ request' = [index |-> i, prompt |-> BuildPrompt(previous_text)]
    /\ inflight' = inflight \cup {i}
    /\ posted' = Append(posted, i)
    /\ pc' = "inflight"
    /\ temp_files' = CreateTemp(temp_files, i)
    /\ UNCHANGED << rejected, ui >>
    /\ UNCHANGED << file, audio_len, chunk_length_ms, split_calls, chunks, i,
                    combined_result, previous_text, responses, status_code,
                    result, raised >>

\* The mutant: a chunk answered with a status other than 200 is posted
\* again.
AnswerRetry(status, body) ==
    /\ pc = "inflight"
    /\ status_code' = status
    /\ IF status # HTTP_OK
       THEN /\ posted' = Append(posted, i)
            /\ UNCHANGED << pc, i, combined_result, previous_text, responses,
                            inflight, temp_files >>
       ELSE /\ {"text", "chunks"} \subseteq DOMAIN body
            /\ combined_result' =
                   [combined_result EXCEPT
                       !.chunks = AppendChunks(@, body.chunks, time_offset(i)),
                       !.text = CombineText(@, body.text)]
            /\ previous_text' = NextContext(combined_result'.text)
            /\ responses' = Append(responses, body)
            /\ i' = i + 1
            /\ pc' = "loop"
            /\ inflight' = inflight \ {request.index}
            /\ temp_files' = ReleaseTemp(temp_files, request.index)
            /\ UNCHANGED posted
    /\ UNCHANGED << file, audio_len, chunk_length_ms, split_calls, chunks,
                    request, result, raised, rejected, ui >>

\* requests.post returns a response: the rest of transcribe_chunk and of
\* the loop body.
Answer(status, body) ==
    /\ pc = "inflight"
    /\ inflight' = inflight \ {request.index}
    /\ status_code' = status
    /\ LET r == CheckResponse(status, body)
       IN  IF r.raises
           THEN /\ Abort(r.exc)
                /\ UNCHANGED << i, combined_result, previous_text, responses,
                                rejected >>
           ELSE LET chunk_result == r.value
                    segments == AppendChunks(combined_result.chunks,
                                             chunk_result.chunks,
                                             time_offset(i))
                    text == CombineText(combined_result.text,
                                        chunk_result.text)
                IN  IF "chunks" \notin DOMAIN chunk_result
                    THEN \* chunk_result["chunks"] raises KeyError
                         /\ Abort(KeyError("chunks"))
                         /\ rejected' = chunk_result
                         /\ UNCHANGED << i, combined_result, previous_text,
                                         responses >>
                    ELSE IF "text" \notin DOMAIN chunk_result
                    THEN \* chunk_result["text"] raises KeyError, after
                         \* the segments were appended
                         /\ combined_result' =
                                [combined_result EXCEPT !.chunks = segments]
                         /\ Abort(KeyError("text"))
                         /\ rejected' = chunk_result
                         /\ UNCHANGED << i, previous_text, responses >>
                    ELSE /\ combined_result' =
                                [combined_result EXCEPT
                                    !.chunks = segments, !.text = text]
                         /\ previous_text' = NextContext(text)
                         /\ responses' = Append(responses, chunk_result)
                         /\ i' = i + 1
                         /\ pc' = "loop"
                         /\ UNCHANGED << raised, rejected >>
    /\ temp_files' = ReleaseTemp(temp_files, request.index)
    /\ UNCHANGED << file, audio_len, chunk_length_ms, split_calls, chunks,
                    request, posted, result, ui >>

Respond ==
    \E status \in Statuses :
        \E body \in (IF status = HTTP_OK THEN Bodies \cup MalformedBodies
                     ELSE {[text |-> << >>, chunks |-> << >>]}) :
            Answer(status, body)

\* requests.post raises: no response arrives.
TransportFail ==
    /\ pc = "inflight"
    /\ inflight' = inflight \ {request.index}
    /\ Abort(Exc("ConnectionError",
                 << Field("text", "Connection refused") >>))
    /\ temp_files' = ReleaseTemp(temp_files, request.index)
    /\ UNCHANGED << rejected, ui >>
    /\ UNCHANGED << file, audio_len, chunk_length_ms, split_calls, chunks, i,
                    combined_result, previous_text, request, posted,
                    responses, status_code, result >>

\* return combined_result
ReturnResult ==
    /\ pc = "loop"
    /\ i >= Len(chunks)
    /\ result' = combined_result
    /\ pc' = "returned"
    /\ UNCHANGED << temp_files, rejected, ui >>
    /\ UNCHANGED << file, audio_len, chunk_length_ms, split_calls, chunks, i,
                    combined_result, previous_text, request, inflight,
                    posted, responses, status_code, raised >>

-----------------------------------------------------------------------------
(* transcribe_audio_dinum: the entry point that calls transcript *)

\* f"Error: {str(e)}"
ErrorString(exc) == << Field("text", "Error: ") >> \o exc.msg

\* The mutant: the handler is `except IOError`.
transcribe_audio_dinum_io_only(res, exc) ==
    IF exc # NoValue
    THEN IF IsInstance(exc, "IOError")
         THEN Return([kind |-> "error", msg |-> ErrorString(exc)])
         ELSE Raise(exc)
    ELSE IF res.text # << >>
    THEN Return([kind |-> "text", text |-> res.text])
    ELSE Return([kind |-> "result", result |-> res])

\* What the entry point makes of transcript returning res or raising exc.
transcribe_audio_dinum(res, exc) ==
    IF exc # NoValue
    THEN IF IsInstance(exc, "Exception")
         THEN Return([kind |-> "error", msg |-> ErrorString(exc)])
         ELSE Raise(exc)
    ELSE IF res.text # << >>
    THEN Return([kind |-> "text", text |-> res.text])
    ELSE Return([kind |-> "result", result |-> res])

\* transcript has returned or raised: the entry point hands its outcome on.
Present ==
    /\ pc \in {"returned", "raised"}
    /\ ui = NoValue
    /\ ui' = transcribe_audio_dinum(result, raised)
    /\ UNCHANGED << file, audio_len, chunk_length_ms, pc, split_calls, chunks,
                    i, combined_result, previous_text, request, inflight,
                    posted, responses, status_code, result, raised,
                    temp_files, rejected >>

Next ==
    \/ Validate
    \/ Split
    \/ Post
    \/ Respond
    \/ TransportFail
    \/ ReturnResult
    \/ Present

Spec == Init /\ [][Next]_vars

-----------------------------------------------------------------------------
(* split_audio alone, on every duration and chunk length of the bounds *)

InitSplit ==
    /\ file = "ok"
    /\ audio_len \in 0..MaxAudioLen
    /\ chunk_length_ms \in 1..MaxChunkLen
    /\ pc = "split_call"
    /\ split_calls = 0
    /\ chunks = << >>
    /\ i = 0
    /\ combined_result = EmptyResult
    /\ previous_text = << >>
    /\ request = NoRequest
    /\ inflight = {}
    /\ posted = << >>
    /\ responses = << >>
    /\ status_code = 0    \* no response yet
    /\ result = NoValue
    /\ raised = NoValue
    /\ temp_files = {}
    /\ rejected = NoValue
    /\ ui = NoValue

SplitCall ==
    /\ pc = "split_call"
    /\ split_calls' = split_calls + 1
    /\ chunks' = split_audio(from_file(file, audio_len).value, chunk_length_ms)
    /\ pc' = "split_done"
    /\ UNCHANGED << temp_files, rejected, ui >>
    /\ UNCHANGED << file, audio_len, chunk_length_ms, i, combined_result,
                    previous_text, request, inflight, posted, responses,
                    status_code, result, raised >>

NextSplit == SplitCall

SpecSplit == InitSplit /\ [][NextSplit]_vars

-----------------------------------------------------------------------------
(* Properties *)

RECURSIVE SumLens(_)
SumLens(cs) == IF cs = << >> THEN 0 ELSE ChunkLen(Head(cs)) + SumLens(Tail(cs))

\* C1: for a duration D > 0 and a chunk length C > 0, split_audio returns
\* ceil(D/C) chunks, chunk k (from 0) starting at k*C, none empty, all but
\* the last of length C, the lengths summing to D.
C1_Partition ==
    (pc = "split_done" /\ audio_len > 0) =>
        LET n == Len(chunks)
            C == chunk_length_ms
            D == audio_len
        IN  /\ (n - 1) * C < D
            /\ D <= n * C
            /\ \A k \in 1..n :
                   /\ chunks[k].start = (k - 1) * C
                   /\ ChunkLen(chunks[k]) > 0
            /\ \A k \in 1..(n - 1) : ChunkLen(chunks[k]) = C
            /\ \A k \in 1..(n - 1) : chunks[k].stop = chunks[k + 1].start
            /\ SumLens(chunks) = D

\* A duration that is a multiple of the chunk length has been split.
C1_Witness ==
    /\ pc = "split_done"
    /\ chunk_length_ms > 1
    /\ audio_len = 2 * chunk_length_ms
    /\ Len(chunks) = 2

\* The number of segments the first k responses hold.
RECURSIVE SegCount(_)
SegCount(k) == IF k = 0 THEN 0 ELSE SegCount(k - 1) + Len(responses[k].chunks)

\* C2: in a run that returned, segment j of the response to chunk k (from 0)
\* is in the result with its two timestamps raised by k * C seconds, C the
\* chunk length split_audio was called with; for chunk 0 they are unchanged.
C2_GlobalTimestamps ==
    (pc = "returned") =>
        /\ Len(responses) = Len(chunks)
        /\ Len(result.chunks) = SegCount(Len(responses))
        /\ \A k \in 1..Len(responses) :
               \A j \in 1..Len(responses[k].chunks) :
                   LET local == responses[k].chunks[j].timestamp
                       global == result.chunks[SegCount(k - 1) + j].timestamp
                   IN  /\ global[1] * 1000
                              = local[1] * 1000 + (k - 1) * chunk_length_ms
                       /\ global[2] * 1000
                              = local[2] * 1000 + (k - 1) * chunk_length_ms
                       /\ (k = 1 => global = local)

\* A run of two chunks returned, each chunk with segments.
C2_Witness ==
    /\ pc = "returned"
    /\ Len(responses) = 2
    /\ responses[1].chunks # << >>
    /\ responses[2].chunks # << >>

SortedByStart(segs) ==
    \A k \in 1..(Len(segs) - 1) : segs[k].timestamp[1] <= segs[k + 1].timestamp[1]

\* A response whose segments are in start order, with timestamps inside
\* the chunk.
ChunkLocal(body) ==
    /\ SortedByStart(body.chunks)
    /\ \A k \in 1..Len(body.chunks) :
           /\ body.chunks[k].timestamp[1] \in 0..CHUNK_DURATION_SECONDS
           /\ body.chunks[k].timestamp[2] \in 0..CHUNK_DURATION_SECONDS

\* C3: as long as every response had its segments in start order with
\* timestamps inside [0, chunk duration], the combined segments are in
\* non-decreasing start order, after every chunk and in the result.
C3_Monotonic ==
    (/\ \A k \in 1..Len(responses) : ChunkLocal(responses[k])
     /\ ("chunks" \in DOMAIN rejected) => ChunkLocal(rejected)) =>
        /\ SortedByStart(combined_result.chunks)
        /\ (pc = "returned" => SortedByStart(result.chunks))

\* Two chunks answered, the first with a segment at its very end, the
\* second with a segment at its start.
C3_Witness ==
    /\ pc = "returned"
    /\ Len(responses) = 2
    /\ \A k \in 1..2 : ChunkLocal(responses[k])
    /\ \E j \in 1..Len(responses[1].chunks) :
           responses[1].chunks[j].timestamp[1] = CHUNK_DURATION_SECONDS
    /\ Len(responses[2].chunks) = 2
    /\ responses[2].chunks[1].timestamp[1] = 0

\* The texts of the first k responses, each stripped and led by a space.
RECURSIVE ExpectedText(_)
ExpectedText(k) ==
    IF k = 0 THEN << >>
    ELSE ExpectedText(k - 1) \o << " " >> \o Strip(responses[k].text)

\* C4: the combined text is the concatenation, in chunk order, of
\* " " + strip(t) for the text t of every response so far; a run that
\* returned holds one such piece per chunk, the first one included.
C4_CombinedText ==
    /\ combined_result.text = ExpectedText(Len(responses))
    /\ (pc = "returned") =>
           /\ Len(responses) = Len(chunks)
           /\ result.text = ExpectedText(Len(chunks))
           /\ (Len(chunks) = 1 =>
                   result.text = << " " >> \o Strip(responses[1].text))

\* Two chunks answered, the first with white space to strip.
C4_Witness ==
    /\ pc = "returned"
    /\ Len(responses) = 2
    /\ Strip(responses[1].text) # responses[1].text
    /\ Strip(responses[1].text) # << >>
    /\ Strip(responses[2].text) # << >>

\* C5: requests go out in ascending chunk order, one per chunk; while the
\* request for chunk i is in flight it is the only one, and all of chunks
\* 0..i-1 have been answered and their texts appended; a run that returned
\* has posted exactly one request per chunk.
C5_Sequential ==
    /\ \A k \in 1..Len(posted) : posted[k] = k - 1
    /\ Cardinality(inflight) <= 1
    /\ Len(posted) <= Len(chunks)
    /\ (pc = "inflight") =>
           /\ inflight = {i}
           /\ Len(posted) = i + 1
           /\ Len(responses) = i
           /\ combined_result.text = ExpectedText(i)
    /\ (pc # "inflight") => inflight = {}
    /\ (pc = "returned") => Len(posted) = Len(chunks)

\* The request for the second chunk is in flight.
C5_Witness ==
    /\ pc = "inflight"
    /\ i = 1
    /\ Len(responses) = 1

\* C6 as the spec states it: the prompt of a request is never longer than
\* the preamble plus 500 characters.
C6_PromptWithinPreamblePlus500 ==
    (pc = "inflight") =>
        Len(request.prompt) <= Len(PROMPT_PREAMBLE) + CONTEXT_CHARS

\* C6, amended: the prompt of a request is the preamble alone when the
\* accumulated text is empty, and otherwise the preamble, the label
\* "Contexte precedent: " and the last min(500, length) characters of the
\* accumulated text; it is never longer than the preamble, the label and
\* 500 characters.
C6_PromptBound ==
    (pc = "inflight") =>
        LET prompt == request.prompt
            head == Len(PROMPT_PREAMBLE) + Len(CONTEXT_LABEL)
            n == Len(previous_text)
        IN  /\ Len(prompt) <= head + CONTEXT_CHARS
            /\ (n = 0) => prompt = PROMPT_PREAMBLE
            /\ (n > 0) =>
                   /\ SubSeq(prompt, 1, head) = PROMPT_PREAMBLE \o CONTEXT_LABEL
                   /\ Len(prompt) - head = Min(n, CONTEXT_CHARS)
                   /\ \A k \in 1..(Len(prompt) - head) :
                          prompt[head + k]
                              = previous_text[n - (Len(prompt) - head) + k]

\* A request is in flight whose accumulated text is longer than 500
\* characters.
C6_Witness ==
    /\ pc = "inflight"
    /\ Len(previous_text) > CONTEXT_CHARS
    /\ Len(request.prompt)
           = Len(PROMPT_PREAMBLE) + Len(CONTEXT_LABEL) + CONTEXT_CHARS

\* The last response had a status other than 200 (0: no response yet).
BackendFailed == status_code # 0 /\ status_code # HTTP_OK

\* C7: once the backend has answered a chunk with a status other than 200,
\* the run has raised and has returned nothing.
C7_NoPartialResult ==
    BackendFailed =>
        /\ pc = "raised"
        /\ raised # NoValue
        /\ result = NoValue

\* The second chunk failed after the first was accumulated.
C7_Witness ==
    /\ BackendFailed
    /\ pc = "raised"
    /\ i = 1
    /\ combined_result.text # << >>

LocalFileErrors == {"FileNotFoundError", "PermissionError", "IOError"}

\* C8 as the spec states it: after a status other than 200 the caller gets
\* an error of the backend kind (RequestException), not one of the local
\* file error kinds, that carries the index of the failed chunk and the
\* status.
C8_BackendErrorKind ==
    (pc = "raised" /\ BackendFailed) =>
        /\ IsInstance(raised, "RequestException")
        /\ raised.type \notin LocalFileErrors
        /\ Carries(raised, "chunk_index", i)
        /\ Carries(raised, "status", status_code)

\* C9: for a path that does not exist the run raises FileNotFoundError, for
\* a path of unknown type ValueError, before split_audio is called and
\* before any request is posted, and nothing is returned.
C9_FailFast ==
    /\ (file = "missing" /\ pc # "start") =>
           /\ pc = "raised"
           /\ raised.type = "FileNotFoundError"
           /\ split_calls = 0
           /\ posted = << >>
           /\ result = NoValue
    /\ (file = "unknown_type" /\ pc # "start") =>
           /\ pc = "raised"
           /\ raised.type = "ValueError"
           /\ split_calls = 0
           /\ posted = << >>
           /\ result = NoValue

\* The run over a missing file has raised.
C9_Witness ==
    /\ file = "missing"
    /\ pc = "raised"
    /\ raised.type = "FileNotFoundError"

ZeroDuration == file = "ok" /\ audio_len = 0

\* C10 as the spec states it: once split_audio has been called on an audio
\* of zero duration, the run has raised and nothing is returned.
C10_ZeroDurationRaises ==
    (ZeroDuration /\ split_calls > 0) =>
        /\ pc = "raised"
        /\ result = NoValue

\* C10, amended: on an audio of zero duration split_audio returns the empty
\* list; the run raises nothing, posts no request and returns the empty
\* transcript (text "", no segments, language "fr").
C10_ZeroDurationEmpty ==
    ZeroDuration =>
        /\ pc \in {"start", "validated", "loop", "returned"}
        /\ raised = NoValue
        /\ posted = << >>
        /\ (split_calls > 0) => chunks = << >>
        /\ (pc = "returned") => result = EmptyResult

\* The run over an audio of zero duration returned.
C10_Witness ==
    /\ ZeroDuration
    /\ pc = "returned"
    /\ result = EmptyResult

\* C11: the temporary file of a chunk exists exactly while the request of
\* that chunk awaits its outcome: there is never more than one, and none
\* once the call has returned or raised, whatever the outcome.
C11_TempFileScoped ==
    /\ Cardinality(temp_files) <= 1
    /\ (pc = "inflight") => temp_files = {i}
    /\ (pc # "inflight") => temp_files = {}

\* The call for the second chunk ended on a status other than 200, and no
\* temporary file is left.
C11_Witness ==
    /\ pc = "raised"
    /\ BackendFailed
    /\ i = 1
    /\ temp_files = {}

\* C12: when the request for chunk i is posted, previous_text is the whole
\* combined text of chunks 0..i-1, not cut to 500 characters; for chunk 0
\* it is empty and the prompt is the preamble alone.
C12_ContextStored ==
    (pc = "inflight") =>
        /\ previous_text = ExpectedText(i)
        /\ previous_text = combined_result.text
        /\ (i = 0) =>
               /\ previous_text = << >>
               /\ request.prompt = PROMPT_PREAMBLE

\* The request for the second chunk is posted with a stored context longer
\* than 500 characters.
C12_Witness ==
    /\ pc = "inflight"
    /\ i = 1
    /\ request.index = 1
    /\ Len(previous_text) > CONTEXT_CHARS

\* C15 as the spec states it: after a 200 response without text or without
\* segment list the run has raised an error of the backend kind
\* (RequestException) and has returned nothing.
C15_MalformedIsBackendError ==
    (rejected # NoValue) =>
        /\ pc = "raised"
        /\ IsInstance(raised, "RequestException")
        /\ result = NoValue

\* C13: once a backend call has failed (a status other than 200, a payload
\* the loop body fails on, or no response at all), for chunk i, the run has
\* raised and the requests of the whole run are one for each of chunks
\* 0..i: chunk i was not posted again and no later chunk was posted.
C13_NoRetryNoSkip ==
    (BackendFailed \/ rejected # NoValue \/ (pc = "raised" /\ posted # << >>)) =>
        /\ pc = "raised"
        /\ posted = [k \in 1..(i + 1) |-> k - 1]
        /\ inflight = {}

\* The call for the second chunk failed.
C13_Witness ==
    /\ pc = "raised"
    /\ BackendFailed
    /\ posted = << 0, 1 >>
    /\ Len(chunks) = 2

\* C14: in a run that returned, the segments of the result are those of
\* the responses, chunk after chunk and in the order of each response, as
\* many as the responses hold together, each with the same fields and, the
\* timestamp apart, the same values.
C14_SegmentsPassedThrough ==
    (pc = "returned") =>
        /\ Len(responses) = Len(chunks)
        /\ Len(result.chunks) = SegCount(Len(responses))
        /\ \A k \in 1..Len(responses) :
               \A j \in 1..Len(responses[k].chunks) :
                   LET src == responses[k].chunks[j]
                       out == result.chunks[SegCount(k - 1) + j]
                   IN  /\ DOMAIN out = DOMAIN src
                       /\ \A f \in DOMAIN src \ {"timestamp"} : out[f] = src[f]

\* A run of two chunks returned, with two segments for the second chunk,
\* one of them with an extra field.
C14_Witness ==
    /\ pc = "returned"
    /\ Len(responses) = 2
    /\ Len(result.chunks) = 2
    /\ Len(responses[2].chunks) = 2
    /\ "confidence" \in DOMAIN responses[2].chunks[1]
    /\ "confidence" \notin DOMAIN responses[2].chunks[2]

\* C16 as the spec states it: transcribe_audio_dinum raises nothing; it
\* returns the combined text when transcript returned and an "Error: ..."
\* string when transcript raised.
C16_TextOrError ==
    (ui # NoValue) =>
        /\ ~ui.raises
        /\ (pc = "returned") =>
               /\ ui.value.kind = "text"
               /\ ui.value.text = result.text
        /\ (pc = "raised") => ui.value.kind = "error"

\* C16, amended: transcribe_audio_dinum raises nothing; when transcript
\* returned it returns the combined text if that text is not empty and the
\* whole result (text, segments, language) if it is empty; when transcript
\* raised it returns "Error: " followed by the message of the error.
C16_AlwaysReturns ==
    (ui # NoValue) =>
        /\ ~ui.raises
        /\ (pc = "returned" /\ result.text # << >>) =>
               /\ ui.value.kind = "text"
               /\ ui.value.text = result.text
        /\ (pc = "returned" /\ result.text = << >>) =>
               /\ ui.value.kind = "result"
               /\ ui.value.result = result
        /\ (pc = "raised") =>
               /\ ui.value.kind = "error"
               /\ ui.value.msg = << Field("text", "Error: ") >> \o raised.msg

\* The entry point returned the error string of a run that raised an error
\* outside the file and backend kinds.
C16_Witness ==
    /\ ui # NoValue
    /\ pc = "raised"
    /\ raised.type = "KeyError"
    /\ ~ui.raises
    /\ ui.value.kind = "error"

====
